---- MODULE Spec2Model ----
(***************************************************************************)
(* The Cineby add-on: the upstream session client (build identifier cache, *)
(* request executor, retry on a stale identifier) and the route handlers   *)
(* that call it, in the five variants of the repository:                   *)
(*   "retry"   src/unnamed/part_002 lines 531-913 (_withBuildIdRetry)      *)
(*   "strict"  src/unnamed/part_002 lines 1-529   (makeRequest)            *)
(*   "basic"   src/server.js                                               *)
(*   "p000"    src/unnamed/part_000                                        *)
(*   "p001"    src/unnamed/part_001                                        *)
(* One process runs one variant; Init draws it. Inbound requests are       *)
(* asynchronous functions on one thread: an action is the code between two *)
(* awaits, and the requests interleave at the awaits.                      *)
(***************************************************************************)
EXTENDS Integers, Sequences, FiniteSets, TLC

VARIABLES
    variant,            \* which file runs
    buildId,            \* this.buildId
    buildIdFetchedAt,   \* this.buildIdFetchedAt (retry, p000, p001)
    buildIdCache,       \* this.buildIdCache     (strict)
    buildIdCacheTime,   \* this.buildIdCacheTime (strict)
    now,                \* the last reading of Date.now(), milliseconds
    ticks,              \* how many readings found the clock advanced
    upBuild,            \* the identifier of the upstream's current deployment
    req,                \* the inbound requests in flight, one record each
    call                \* a route handler's work on one inbound request

vars == <<variant, buildId, buildIdFetchedAt, buildIdCache, buildIdCacheTime,
          now, ticks, upBuild, req, call>>

----------------------------------------------------------------------------
\* Bounds of the model.
MaxTicks == 1
MaxDeploys == 1

\* Program constants.
TTL == 3600000
NoId == 0
FallbackId == 1

Variants == {"retry", "strict", "basic", "p000", "p001"}
TtlVariants == {"retry", "p000", "p001"}
Procs == {1, 2}

\* The time between two readings of the clock: none, one millisecond less
\* than the TTL, or the TTL, so that cache ages just below and at the TTL
\* occur (and above it, with a second advance).
Elapsed == {0, TTL - 1, TTL}

\* What a slot runs. Slot 1 holds the request under observation: "prime",
\* the startup call client.getBuildId(); "list", a catalog or search request
\* (getTrending, search, getMovies, getTVShows); "details", GET /meta
\* (getContentDetails); "stream", GET /stream (getStreamSources, getStreams).
\* Slot 2 holds the part of an overlapping request that
\* touches the shared cache: "other", its getBuildId(false) call (or the
\* startup call), and in the retry variant "refresh", its getBuildId(true)
\* call.
Kinds == {"prime", "list", "details", "stream", "other", "refresh"}
KindsOf(p) ==
    IF p = 1 THEN {"prime", "list", "details", "stream"}
    ELSE CASE variant = "retry" -> {"other", "refresh"}
           [] variant = "basic" -> {}
           [] OTHER -> {"other"}

----------------------------------------------------------------------------
\* What the upstream can answer.

\* Homepage: a 200 page holding "buildId":"<id>" of the current deployment, a
\* 200 page without the pattern, a status below 500 other than 200, or a
\* failure (5xx, timeout, connection refused).
NoPage == [k |-> "none", id |-> NoId]
Pages ==
    {[k |-> "match", id |-> upBuild], [k |-> "nomatch", id |-> NoId],
     [k |-> "fail", id |-> NoId]}
    \cup (IF variant = "strict" THEN {[k |-> "non200", id |-> NoId]} ELSE {})

\* Data endpoints: st is the HTTP status, 0 when no response arrived (a
\* timeout or a refused connection). A 200 body is "ok" (the expected fields),
\* "nopp" (no pageProps, or not the expected field) or "bad" (fields the
\* handler chokes on).
NoAnswer == [st |-> 0, body |-> "unsent"]
Answers ==
    {[st |-> 200, body |-> b] : b \in {"ok", "nopp", "bad"}}
    \cup {[st |-> s, body |-> "none"] : s \in {204, 403, 404, 500}}
    \cup {[st |-> 0, body |-> "timeout"]}

\* Identifier-scoped paths exist only under the current deployment's
\* identifier: under any other identifier the upstream has no 2xx answer.
AnswersFor(id) ==
    IF id = upBuild THEN Answers ELSE {a \in Answers : a.st \notin {200, 204}}

----------------------------------------------------------------------------
\* A request record. t0: `now` as read by the getBuildId call in progress;
\* preId: the identifier cached when that call was entered; page: the
\* homepage answer in flight; ret: what the getBuildId call that just
\* finished resolved to (<<>> for undefined); used: the identifier in the path
\* of the last data request; runs: data requests sent; forced:
\* getBuildId(true) calls; first: the first data answer; data: what the last
\* data request gave the client method (the body, "null", or "error" when it
\* threw); out: what the client method resolved to ("raised": it threw);
\* status, body: the HTTP answer of the route.
IdleReq ==
    [pc |-> "idle", kind |-> "none", t0 |-> 0, preId |-> NoId,
     page |-> NoPage, ret |-> <<>>, used |-> NoId, runs |-> 0, forced |-> 0,
     first |-> NoAnswer, data |-> "pending", out |-> "pending",
     status |-> 0, body |-> "none"]

\* No route handler is at work on the parameters of a request.
NoCall == [op |-> "none"]

Init ==
    /\ variant \in Variants
    /\ buildId = IF variant \in {"strict", "basic"} THEN FallbackId ELSE NoId
    /\ buildIdFetchedAt = 0
    /\ buildIdCache = NoId
    /\ buildIdCacheTime = 0
    /\ now = TTL
    /\ ticks = 0
    /\ upBuild = FallbackId
    /\ req = [p \in Procs |-> IdleReq]
    /\ call = NoCall

----------------------------------------------------------------------------
\* 4.1 Build identifier cache.

\* getBuildId(forceRefresh) of retry, p000 and p001: the test that answers
\* from the cache.
CacheFresh_Inclusive(force, id, at, t) == ~force /\ id # NoId /\ t - at <= TTL
CacheFresh_IgnoresForce(force, id, at, t) == id # NoId /\ t - at < TTL
CacheFresh(force, id, at, t) == ~force /\ id # NoId /\ t - at < TTL

\* getBuildId() of strict: the test that answers from the cache.
StrictCacheFresh(cache, at, t) == cache # NoId /\ at # 0 /\ t - at < TTL

\* Whether the variant's getBuildId of this request answers from the cache;
\* basic has no cache.
AnswersFromCache(force, t) ==
    CASE variant \in TtlVariants ->
            CacheFresh(force, buildId, buildIdFetchedAt, t)
      [] variant = "strict" ->
            StrictCacheFresh(buildIdCache, buildIdCacheTime, t)
      [] OTHER -> FALSE

\* The identifier and the timestamp after a homepage answer was handled: only
\* a page holding the pattern writes; every other answer (no pattern, another
\* status, a thrown error) leaves both as they are.
NewBuildId_DropsOnFailure(page, id) ==
    IF page.k = "match" THEN page.id ELSE NoId
NewBuildId(page, id) == IF page.k = "match" THEN page.id ELSE id
NewFetchedAt(page, t0, at) == IF page.k = "match" THEN t0 ELSE at

\* What getBuildId resolves to: the identifier in retry, p000 and p001,
\* nothing (undefined) in strict and basic.
GetBuildIdReturn(id) == IF variant \in TtlVariants THEN <<id>> ELSE <<>>

----------------------------------------------------------------------------
\* 4.2 Request executor.

\* axios.get with the default validateStatus: anything but 2xx throws.
AxiosThrows(a) == a.st < 200 \/ a.st >= 300

\* axios.get with strict's axiosConfig: only 5xx and no response throw.
StrictAxiosThrows(a) == a.st = 0 \/ ~(a.st < 500)

\* response.data of an answer that did not throw.
ResponseData(a) == IF a.st = 200 THEN a.body ELSE "nopp"

\* makeRequest of strict: the body on status 200, null otherwise.
MakeRequest_NoStatusCheck(a) ==
    IF StrictAxiosThrows(a) THEN "null" ELSE ResponseData(a)
MakeRequest(a) ==
    IF StrictAxiosThrows(a) THEN "null"
    ELSE IF a.st = 200 THEN ResponseData(a) ELSE "null"

\* What a client method makes of the data it got: getTrending, search,
\* getMovies, getTVShows pick a list (`|| []`), getContentDetails picks
\* pageProps (`|| null`).
Picked(kind, data) ==
    CASE data = "ok" -> "data"
      [] data = "bad" -> "baddata"
      [] OTHER -> IF kind = "list" THEN "empty" ELSE "null"

\* The same in p000 and p001, where getDetails picks `|| {}`.
PlainPicked(kind, data) ==
    CASE data = "ok" -> "data"
      [] data = "bad" -> "baddata"
      [] OTHER -> IF kind = "list" THEN "empty" ELSE "emptyobj"

----------------------------------------------------------------------------
\* 4.3 Retry on a stale identifier (_withBuildIdRetry, retry variant).

\* The catch block of the first execution: 404 and 500 ask for a refresh and
\* a second execution, everything else resolves to null.
AfterFirstFailure_Always(a) == "refresh"
AfterFirstFailure_Only500(a) == IF a.st = 500 THEN "refresh" ELSE "null"
AfterFirstFailure(a) == IF a.st = 404 \/ a.st = 500 THEN "refresh" ELSE "null"

\* The catch block of the second execution: log, then fall to `return null`.
AfterSecondFailure_Again(a) ==
    IF a.st = 404 \/ a.st = 500 THEN "refresh" ELSE "null"
AfterSecondFailure_Raise(a) == "raise"
AfterSecondFailure(a) == "null"

----------------------------------------------------------------------------
\* The route handlers: the HTTP answer for what the client method resolved to
\* ("raised": it threw).
Http(s, b) == [status |-> s, body |-> b]

RetryRoute_NotFound(kind, out) ==
    CASE out = "data" -> Http(200, "full")
      [] out = "null" /\ kind = "details" -> Http(404, "error")
      [] OTHER -> Http(200, "empty")
RetryRoute(kind, out) ==
    IF out = "data" THEN Http(200, "full") ELSE Http(200, "empty")

StrictRoute(kind, out) ==
    CASE out = "data" -> Http(200, "full")
      [] out = "empty" -> Http(200, "empty")
      [] out = "null" -> Http(404, "error")
      [] OTHER -> Http(500, "error")

BasicRoute(kind, out) ==
    CASE out = "data" -> Http(200, "full")
      [] out = "empty" -> Http(200, "empty")
      [] out = "null" -> Http(404, "error")
      [] OTHER -> Http(500, "error")

PlainRoute(kind, out) ==
    CASE out = "data" -> Http(200, "full")
      [] out = "emptyobj" -> Http(200, "defaults")
      [] OTHER -> Http(200, "empty")

Route(kind, out) ==
    CASE variant = "retry" -> RetryRoute(kind, out)
      [] variant = "strict" -> StrictRoute(kind, out)
      [] variant = "basic" -> BasicRoute(kind, out)
      [] OTHER -> PlainRoute(kind, out)

----------------------------------------------------------------------------
\* Steps of one request.

\* The route answers.
Respond(r, data, out) ==
    [r EXCEPT !.pc = "done", !.data = data, !.out = out, !.ret = <<>>,
              !.status = Route(r.kind, out).status,
              !.body = Route(r.kind, out).body]

\* The identifier in the path of a data request: the stream-source endpoints
\* have none.
PathId(kind, id) == IF kind = "stream" THEN NoId ELSE id

\* The client method builds the URL from this.buildId and sends the request.
IssueOp(r, id) ==
    [r EXCEPT !.pc = "op_wait", !.used = PathId(r.kind, id), !.runs = @ + 1]

\* getBuildId has resolved and its caller goes on: the startup call is over,
\* a client method sends its data request. (What an overlapping request does
\* next is not followed: slot 2 is free again.)
AfterGet(r, id) ==
    LET r1 == [r EXCEPT !.t0 = 0, !.preId = NoId, !.page = NoPage]
    IN  CASE r.kind \in {"other", "refresh"} -> IdleReq
          [] r.kind = "prime" -> [r1 EXCEPT !.pc = "done"]
          [] OTHER -> IssueOp(r1, id)

\* getBuildId(force) is entered: it reads the clock (t), then answers from
\* the cache or sends the homepage request.
EnterGet(r, force, t) ==
    LET r1 == [r EXCEPT !.t0 = t, !.preId = buildId, !.ret = <<>>,
                        !.forced = @ + (IF force THEN 1 ELSE 0)]
        hit == IF variant = "strict" THEN buildIdCache ELSE buildId
    IN  IF AnswersFromCache(force, t)
        THEN AfterGet([r1 EXCEPT !.ret = GetBuildIdReturn(hit)], hit)
        ELSE [r1 EXCEPT !.pc = IF force THEN "forced_sent" ELSE "warm_sent"]

\* Whether the variant's client method calls getBuildId before its request:
\* of the stream-source methods only getStreams of part_000 does.
CallsGetBuildId(kind) ==
    IF kind = "stream" THEN variant = "p000"
    ELSE kind \in {"prime", "other", "refresh"} \/ variant # "basic"

\* What getStreamSources (basic, strict, retry) or getStreams (part_000,
\* part_001) gives the stream handler for an answer: the first catches a
\* failure and resolves to null, the second lets it through.
StreamData(a) ==
    CASE variant = "strict" -> MakeRequest(a)
      [] AxiosThrows(a) ->
            IF variant \in {"retry", "basic"} THEN "null" ELSE "error"
      [] OTHER -> ResponseData(a)

\* What the stream handler makes of it: the streams of the sources, an empty
\* list when there are no sources, an exception when `sources` is no array
\* (strict tests Array.isArray first).
StreamPicked(data) ==
    CASE data = "ok" -> "data"
      [] data = "bad" -> IF variant = "strict" THEN "empty" ELSE "raised"
      [] data = "error" -> "raised"
      [] OTHER -> "empty"

\* What a data answer does to the request, per variant.
AfterAnswer(r, a, t) ==
    CASE r.kind = "stream" ->
            Respond(r, StreamData(a), StreamPicked(StreamData(a)))
      [] variant = "retry" ->
            IF AxiosThrows(a)
            THEN LET d == IF r.runs = 1 THEN AfterFirstFailure(a)
                          ELSE AfterSecondFailure(a)
                 IN  CASE d = "refresh" ->
                            EnterGet([r EXCEPT !.data = "error"], TRUE, t)
                       [] d = "null" -> Respond(r, "error", "null")
                       [] OTHER -> Respond(r, "error", "raised")
            ELSE Respond(r, ResponseData(a), Picked(r.kind, ResponseData(a)))
      [] variant = "strict" ->
            Respond(r, MakeRequest(a), Picked(r.kind, MakeRequest(a)))
      [] variant = "basic" ->
            IF AxiosThrows(a)
            THEN Respond(r, "error", Picked(r.kind, "null"))
            ELSE Respond(r, ResponseData(a), Picked(r.kind, ResponseData(a)))
      [] OTHER ->
            IF AxiosThrows(a)
            THEN Respond(r, "error", "raised")
            ELSE Respond(r, ResponseData(a),
                         PlainPicked(r.kind, ResponseData(a)))

----------------------------------------------------------------------------
\* Actions.

\* A reading of the clock d milliseconds after the last one.
ClockRead(d) ==
    /\ d \in Elapsed
    /\ d > 0 => ticks < MaxTicks
    /\ now' = now + d
    /\ ticks' = IF d > 0 THEN ticks + 1 ELSE ticks

\* The upstream redeploys: a new identifier, the old paths are gone.
Redeploy ==
    /\ upBuild <= MaxDeploys
    /\ upBuild' = upBuild + 1
    /\ UNCHANGED <<call, variant, buildId, buildIdFetchedAt, buildIdCache,
                   buildIdCacheTime, now, ticks, req>>

\* A request arrives (or the process starts and primes the cache) and runs to
\* its first await. The second slot is used only while the first is busy.
Start(p, k, d) ==
    /\ req[p].pc = "idle"
    /\ k \in KindsOf(p)
    /\ p = 2 => req[1].pc # "idle"
    /\ ClockRead(d)
    /\ ~CallsGetBuildId(k) => d = 0
    /\ LET r0 == [IdleReq EXCEPT !.kind = k]
           r1 == IF CallsGetBuildId(k) THEN EnterGet(r0, k = "refresh", now')
                 ELSE IssueOp(r0, buildId)
       IN  /\ req' = [req EXCEPT ![p] = r1]
           /\ buildId' = IF variant = "strict" /\ CallsGetBuildId(k)
                            /\ AnswersFromCache(FALSE, now')
                         THEN buildIdCache ELSE buildId
    /\ UNCHANGED <<call, variant, buildIdFetchedAt, buildIdCache,
                   buildIdCacheTime, upBuild>>

\* The upstream serves the homepage request of p.
HomeServe(p, page) ==
    /\ req[p].pc \in {"warm_sent", "forced_sent"}
    /\ req' = [req EXCEPT ![p].pc = IF @ = "warm_sent" THEN "warm_served"
                                    ELSE "forced_served",
                          ![p].page = page]
    /\ UNCHANGED <<call, variant, buildId, buildIdFetchedAt, buildIdCache,
                   buildIdCacheTime, now, ticks, upBuild>>

\* The homepage answer reaches getBuildId of p, which writes the cache (or
\* not), resolves, and its caller runs to the next await.
HomeDeliver(p) ==
    /\ req[p].pc \in {"warm_served", "forced_served"}
    /\ LET r == req[p]
           id == NewBuildId(r.page, buildId)
       IN  /\ buildId' = id
           /\ buildIdFetchedAt' =
                 IF variant \in TtlVariants
                 THEN NewFetchedAt(r.page, r.t0, buildIdFetchedAt)
                 ELSE buildIdFetchedAt
           /\ buildIdCache' = IF variant = "strict"
                              THEN NewBuildId(r.page, buildIdCache)
                              ELSE buildIdCache
           /\ buildIdCacheTime' =
                 IF variant = "strict"
                 THEN NewFetchedAt(r.page, r.t0, buildIdCacheTime)
                 ELSE buildIdCacheTime
           /\ req' = [req EXCEPT ![p] =
                 AfterGet([r EXCEPT !.ret = GetBuildIdReturn(id)], id)]
    /\ UNCHANGED <<call, variant, now, ticks, upBuild>>

\* The upstream answers the data request of p, and p runs to its next await
\* or to the HTTP answer. The clock is read only where getBuildId(true) is
\* entered.
OpRespond(p, a, d) ==
    /\ req[p].pc = "op_wait"
    /\ a \in IF req[p].kind = "stream" THEN Answers
             ELSE AnswersFor(req[p].used)
    /\ ClockRead(d)
    /\ LET r == [req[p] EXCEPT !.first = IF req[p].runs = 1 THEN a ELSE @]
       IN  /\ req' = [req EXCEPT ![p] = AfterAnswer(r, a, now')]
           /\ req'[p].pc # "forced_sent" => d = 0
    /\ UNCHANGED <<call, variant, buildId, buildIdFetchedAt, buildIdCache,
                   buildIdCacheTime, upBuild>>

\* The HTTP answer is out; the slot is free again.
Finish(p) ==
    /\ req[p].pc = "done"
    /\ req' = [req EXCEPT ![p] = IdleReq]
    /\ UNCHANGED <<call, variant, buildId, buildIdFetchedAt, buildIdCache,
                   buildIdCacheTime, now, ticks, upBuild>>

Next ==
    \/ Redeploy
    \/ \E p \in Procs, k \in Kinds, d \in Elapsed : Start(p, k, d)
    \/ \E p \in Procs, page \in Pages : HomeServe(p, page)
    \/ \E p \in Procs : HomeDeliver(p)
    \/ \E p \in Procs, a \in Answers, d \in Elapsed : OpRespond(p, a, d)
    \/ \E p \in Procs : Finish(p)

Spec == Init /\ [][Next]_vars

----------------------------------------------------------------------------
\* The same program with an undisturbed upstream and one request at a time:
\* the homepage always serves the current identifier, a path scoped by the
\* current identifier answers 200 with the expected payload, a path scoped by
\* any other identifier answers 404, and the upstream redeploys only between
\* requests. Retry variant.
IdealAnswer(id) ==
    IF id = upBuild THEN [st |-> 200, body |-> "ok"]
    ELSE [st |-> 404, body |-> "none"]

CalmInit == Init /\ variant = "retry"
CalmRedeploy == req[1].pc = "idle" /\ Redeploy
CalmStart(k, d) == Start(1, k, d)
CalmHomeServe == HomeServe(1, [k |-> "match", id |-> upBuild])
CalmHomeDeliver == HomeDeliver(1)
CalmOpRespond(d) ==
    OpRespond(1, IF req[1].kind = "stream" THEN IdealAnswer(upBuild)
                 ELSE IdealAnswer(req[1].used), d)
CalmFinish == Finish(1)

CalmNext ==
    \/ CalmRedeploy
    \/ \E k \in Kinds, d \in Elapsed : CalmStart(k, d)
    \/ CalmHomeServe
    \/ CalmHomeDeliver
    \/ \E d \in Elapsed : CalmOpRespond(d)
    \/ CalmFinish

SpecCalm == CalmInit /\ [][CalmNext]_vars

----------------------------------------------------------------------------
\* Properties.

IsDataRequest(r) == r.kind \in {"list", "details"}
Finished(r) == r.pc = "done"
ServedFailure(r) ==
    r.pc \in {"warm_served", "forced_served"} /\ r.page.k # "match"

\* C1: retry variant, _withBuildIdRetry: a request never runs its operation
\* more than twice nor calls getBuildId(true) more than once, and when the
\* first execution failed with status 404 or 500 the finished call has made
\* exactly one getBuildId(true) call and exactly two executions.
RetryRunsExactlyTwice ==
    \A p \in Procs :
        (variant = "retry" /\ IsDataRequest(req[p])) =>
            /\ req[p].runs <= 2
            /\ req[p].forced <= 1
            /\ (Finished(req[p]) /\ req[p].first.st \in {404, 500}) =>
                  (req[p].forced = 1 /\ req[p].runs = 2)

RetryRunsExactlyTwiceWitness ==
    \E p \in Procs :
        /\ variant = "retry" /\ Finished(req[p]) /\ IsDataRequest(req[p])
        /\ req[p].first.st = 404 /\ req[p].runs = 2 /\ req[p].forced = 1
        /\ req[p].data = "error"

\* C2: retry variant, _withBuildIdRetry: when the first execution failed with
\* a status other than 404 and 500, or with no response at all, the call has
\* made no getBuildId(true) call, has run the operation once, and resolves to
\* null.
NoRetryOnOtherFailure ==
    \A p \in Procs :
        (/\ variant = "retry" /\ IsDataRequest(req[p]) /\ req[p].runs >= 1
         /\ req[p].pc # "op_wait"
         /\ req[p].first.st \notin {200, 204, 404, 500}) =>
            /\ Finished(req[p])
            /\ req[p].forced = 0
            /\ req[p].runs = 1
            /\ req[p].out = "null"

NoRetryOnOtherFailureWitness ==
    \E p \in Procs :
        /\ variant = "retry" /\ Finished(req[p]) /\ IsDataRequest(req[p])
        /\ req[p].first.st = 403 /\ req[p].out = "null"

\* C3: retry variant, _withBuildIdRetry never raises: a finished call has
\* resolved to the operation's result or to null, and to null when the last
\* execution failed (in particular the second, after the refresh).
RetryNeverRaises ==
    \A p \in Procs :
        (variant = "retry" /\ IsDataRequest(req[p]) /\ Finished(req[p])) =>
            /\ req[p].out \in {"data", "baddata", "empty", "null"}
            /\ req[p].data = "error" => req[p].out = "null"
            /\ req[p].data = "ok" => req[p].out = "data"

RetryNeverRaisesWitness ==
    \E p \in Procs :
        /\ variant = "retry" /\ Finished(req[p]) /\ IsDataRequest(req[p])
        /\ req[p].runs = 2 /\ req[p].data = "error" /\ req[p].out = "null"

\* C4: getBuildId(false) in retry, p000 and p001: a call entered while an
\* identifier is cached and younger than one hour returns it, sends no
\* homepage request and leaves identifier and fetchedAt as they are; a call
\* entered with no identifier or with one aged one hour or more sends the
\* homepage request.
CacheHitWithinTtl ==
    [][\A p \in Procs :
          (/\ variant \in TtlVariants
           /\ req[p].pc = "idle" /\ req'[p].pc # "idle"
           /\ CallsGetBuildId(req'[p].kind)
           /\ req'[p].kind # "refresh") =>
              IF buildId # NoId /\ now' - buildIdFetchedAt < 3600000
              THEN /\ req'[p].pc \notin {"warm_sent", "forced_sent"}
                   /\ req'[p].ret = <<buildId>>
                   /\ buildId' = buildId
                   /\ buildIdFetchedAt' = buildIdFetchedAt
              ELSE req'[p].pc = "warm_sent"]_vars

CacheHitWithinTtlWitness ==
    \E p \in Procs :
        /\ variant \in TtlVariants /\ req[p].pc = "warm_sent"
        /\ buildId # NoId /\ req[p].t0 - buildIdFetchedAt = 3600000

\* C5 as claimed: getBuildId(true) always sends the homepage request, and
\* when the fetch fails it returns the identifier cached before the call.
ForcedRefreshReturnsPriorId ==
    [][\A p \in Procs :
          /\ req'[p].forced > req[p].forced => req'[p].pc = "forced_sent"
          /\ (/\ req[p].pc = "forced_served" /\ ServedFailure(req[p])
              /\ req'[p].pc # "forced_served" /\ IsDataRequest(req[p])) =>
                 req'[p].ret = <<req[p].preId>>]_vars

\* C5 as amended: getBuildId(true) always sends the homepage request, whatever
\* the cache holds, and when the fetch fails it writes nothing and returns the
\* identifier cached at that moment (the one cached before the call unless
\* another request's refresh wrote the cache during the fetch).
ForcedRefreshAlwaysFetches ==
    [][\A p \in Procs :
          /\ req'[p].forced > req[p].forced => req'[p].pc = "forced_sent"
          /\ (/\ req[p].pc = "forced_served" /\ ServedFailure(req[p])
              /\ req'[p].pc # "forced_served" /\ IsDataRequest(req[p])) =>
                 /\ req'[p].ret = <<buildId>>
                 /\ buildId' = buildId]_vars

ForcedRefreshAlwaysFetchesWitness ==
    \E p \in Procs :
        /\ variant = "retry" /\ req[p].pc = "forced_served"
        /\ ServedFailure(req[p]) /\ IsDataRequest(req[p])
        /\ buildId # NoId /\ req[p].t0 - buildIdFetchedAt < 3600000
        /\ req[p].preId = buildId

\* C6 as claimed: in every variant a refresh whose fetch fails or whose page
\* lacks the pattern writes nothing, resolves, and returns the current
\* identifier.
FailedRefreshReturnsCurrentId ==
    [][\A p \in Procs :
          (ServedFailure(req[p]) /\ req'[p].pc # req[p].pc) =>
              /\ UNCHANGED <<buildId, buildIdFetchedAt, buildIdCache,
                             buildIdCacheTime>>
              /\ req[p].kind \in {"prime", "list", "details"} =>
                    /\ req'[p].pc \in {"op_wait", "done"}
                    /\ req'[p].ret = <<buildId>>]_vars

\* C6 as amended: in every variant a refresh whose fetch fails or whose page
\* lacks the pattern writes nothing (identifier and timestamps keep their
\* values, also those another request wrote meanwhile) and resolves without
\* raising; in retry, p000 and p001 it returns the current identifier (absent
\* if none was ever fetched), in strict and basic it returns nothing and the
\* identifier, never absent there, stays in this.buildId.
FailedRefreshWritesNothing ==
    [][\A p \in Procs :
          (ServedFailure(req[p]) /\ req'[p].pc # req[p].pc) =>
              /\ UNCHANGED <<buildId, buildIdFetchedAt, buildIdCache,
                             buildIdCacheTime>>
              /\ req[p].kind \in {"prime", "list", "details"} =>
                    /\ req'[p].pc \in {"op_wait", "done"}
                    /\ variant \in {"retry", "p000", "p001"} =>
                          req'[p].ret = <<buildId>>
                    /\ variant \in {"strict", "basic"} =>
                          (req'[p].ret = <<>> /\ buildId # NoId)]_vars

FailedRefreshWritesNothingWitness ==
    \E p \in Procs :
        /\ ServedFailure(req[p]) /\ req[p].kind \in {"prime", "list", "details"}
        /\ buildId # NoId /\ buildId # req[p].preId

\* C7: retry variant, undisturbed upstream, one request at a time: every
\* data request is sent under the identifier the cache holds, and a finished
\* catalog, search or details call has the operation's successful result,
\* obtained under the current identifier, with the current identifier in the
\* cache, also when the call found a stale identifier in the cache
\* and had to run twice.
StaleIdentifierRecovered ==
    \A p \in Procs :
        IsDataRequest(req[p]) =>
            /\ req[p].pc = "op_wait" => req[p].used = buildId
            /\ (req[p].pc = "op_wait" /\ req[p].runs = 2) =>
                  req[p].used = upBuild
            /\ Finished(req[p]) =>
                  /\ req[p].out = "data"
                  /\ req[p].used = upBuild
                  /\ buildId = upBuild

StaleIdentifierRecoveredWitness ==
    \E p \in Procs :
        /\ IsDataRequest(req[p]) /\ Finished(req[p])
        /\ req[p].first.st = 404 /\ req[p].runs = 2 /\ req[p].out = "data"
        /\ buildId = upBuild /\ upBuild # FallbackId

\* C8 as claimed: strict variant, a catalog, search or details request whose
\* upstream call was answered 404 has refreshed the identifier and sent the
\* upstream call a second time when it finishes.
StrictRetriesOn404 ==
    \A p \in Procs :
        (/\ variant = "strict" /\ IsDataRequest(req[p]) /\ Finished(req[p])
         /\ req[p].first.st = 404) => req[p].runs = 2

\* C9 as claimed: strict variant, makeRequest never raises, returns the
\* parsed body for every 2xx status and null for every other outcome.
MakeRequestBodyOnEvery2xx ==
    \A p \in Procs :
        (variant = "strict" /\ IsDataRequest(req[p]) /\ Finished(req[p])) =>
            /\ req[p].out # "raised"
            /\ req[p].data # "error"
            /\ (req[p].first.st >= 200 /\ req[p].first.st < 300) =>
                  req[p].data # "null"
            /\ ~(req[p].first.st >= 200 /\ req[p].first.st < 300) =>
                  req[p].data = "null"

\* C9 as amended: strict variant, makeRequest never raises, returns the
\* parsed body for status 200 and null for every other outcome: any other
\* status below 500 (other 2xx included), every 5xx, a timeout, a connection
\* failure.
MakeRequestBodyOn200Only ==
    \A p \in Procs :
        (variant = "strict" /\ IsDataRequest(req[p]) /\ Finished(req[p])) =>
            /\ req[p].out # "raised"
            /\ req[p].data # "error"
            /\ req[p].first.st = 200 => req[p].data = req[p].first.body
            /\ req[p].first.st # 200 => req[p].data = "null"

MakeRequestBodyOn200OnlyWitness ==
    \E p \in Procs :
        /\ variant = "strict" /\ IsDataRequest(req[p]) /\ Finished(req[p])
        /\ req[p].first.st = 204 /\ req[p].data = "null"

\* C10: retry variant, GET /meta: whenever the detail lookup resolved to
\* absent (a failure inside _withBuildIdRetry or a payload without
\* pageProps) the handler answers 200 with { meta: {} }, and it answers no
\* status but 200 in any case.
RetryMetaAbsentIsEmpty200 ==
    \A p \in Procs :
        (variant = "retry" /\ req[p].kind = "details" /\ Finished(req[p])) =>
            /\ req[p].status = 200
            /\ req[p].out = "null" => req[p].body = "empty"

RetryMetaAbsentIsEmpty200Witness ==
    \E p \in Procs :
        /\ variant = "retry" /\ req[p].kind = "details" /\ Finished(req[p])
        /\ req[p].out = "null" /\ req[p].data = "error"
        /\ req[p].status = 200 /\ req[p].body = "empty"

\* C11 as claimed: basic and strict variants, a catalog or meta request whose
\* upstream lookup failed or gave nothing, or whose payload the handler could
\* not process, is answered 200 with the empty collection.
BasicStrictAlwaysEmpty200 ==
    \A p \in Procs :
        (/\ variant \in {"basic", "strict"} /\ IsDataRequest(req[p])
         /\ Finished(req[p]) /\ req[p].out # "data") =>
            (req[p].status = 200 /\ req[p].body = "empty")

----------------------------------------------------------------------------
\* Text. A JavaScript string is a sequence of tokens: one token per character,
\* with a word that is only ever handled whole ("cineby", "1080p", "Server ")
\* as a single token. `undefined` is the one-token text it prints as.
Undefined == <<"undefined">>

\* Boolean(x) of a text, or of an absent value.
Truthy(x) == x # Undefined /\ x # <<>>

\* Number.prototype.toString and parseInt on decimal digits.
DigitChars == <<"0", "1", "2", "3", "4", "5", "6", "7", "8", "9">>
IsDigit(c) == \E i \in 1..10 : DigitChars[i] = c
DigitValue(c) == (CHOOSE i \in 1..10 : DigitChars[i] = c) - 1

RECURSIVE NumberToString(_)
NumberToString(n) ==
    IF n < 10 THEN <<DigitChars[n + 1]>>
    ELSE NumberToString(n \div 10) \o <<DigitChars[(n % 10) + 1]>>

RECURSIVE DigitsValue(_, _)
DigitsValue(s, acc) ==
    IF s = <<>> \/ ~IsDigit(Head(s)) THEN acc
    ELSE DigitsValue(Tail(s), 10 * acc + DigitValue(Head(s)))

\* NaN: not a number, a value apart from every number the model computes.
NaN == 0 - 2000

\* The unsigned part of a numeric text, and its sign.
Unsigned(x) == IF x # <<>> /\ Head(x) = "-" THEN Tail(x) ELSE x
Signed(x, n) == IF x # <<>> /\ Head(x) = "-" THEN 0 - n ELSE n

\* parseInt(x) || 0: the leading digits of x with their sign; NaN (no
\* leading digit, or x absent) gives 0.
ParseIntOrZero(x) ==
    IF x = Undefined \/ Unsigned(x) = <<>> \/ ~IsDigit(Head(Unsigned(x)))
    THEN 0
    ELSE Signed(x, DigitsValue(Unsigned(x), 0))

\* Number(x) of a text, as `/` and slice convert their operands: the empty
\* text is 0, digits with or without a sign are their value, any other text
\* is NaN.
ToNumber(x) ==
    CASE x = <<>> -> 0
      [] Unsigned(x) # <<>>
         /\ \A i \in 1..Len(Unsigned(x)) : IsDigit(Unsigned(x)[i]) ->
            Signed(x, DigitsValue(Unsigned(x), 0))
      [] OTHER -> NaN

\* Math.max(0, n), and NaN taken for 0 (as slice takes it).
AtLeastZero(n) == IF n < 0 THEN 0 ELSE n
NumberOrZero(n) == IF n = NaN THEN 0 ELSE n

\* String.prototype.padStart(width, fill).
PadStart_Unpadded(s, width, fill) == s
RECURSIVE PadStart(_, _, _)
PadStart(s, width, fill) ==
    IF Len(s) >= width THEN s ELSE PadStart(<<fill>> \o s, width, fill)

\* String.prototype.startsWith(pat).
StartsWith(s, pat) == Len(s) >= Len(pat) /\ SubSeq(s, 1, Len(pat)) = pat

\* String.prototype.indexOf(pat) from position i, 1-based; 0 when absent.
RECURSIVE IndexOf(_, _, _)
IndexOf(s, pat, i) ==
    IF i + Len(pat) - 1 > Len(s) THEN 0
    ELSE IF SubSeq(s, i, i + Len(pat) - 1) = pat THEN i
    ELSE IndexOf(s, pat, i + 1)

\* String.prototype.replace(pat, rep) with a string pattern: the first
\* occurrence only.
Replace_Nothing(s, pat, rep) == s
Replace(s, pat, rep) ==
    LET i == IndexOf(s, pat, 1)
    IN  IF i = 0 THEN s
        ELSE SubSeq(s, 1, i - 1) \o rep \o SubSeq(s, i + Len(pat), Len(s))

\* String.prototype.split(sep), sep one token: the fields between the
\* separators, empty fields included.
RECURSIVE Split(_, _)
Split(s, sep) ==
    LET i == IndexOf(s, <<sep>>, 1)
    IN  IF i = 0 THEN <<s>>
        ELSE <<SubSeq(s, 1, i - 1)>> \o Split(SubSeq(s, i + 1, Len(s)), sep)

\* parts[i - 1] of an array (and what a destructuring binds): undefined past
\* the end.
Field(parts, i) == IF i <= Len(parts) THEN parts[i] ELSE Undefined

\* Array.prototype.slice(lo, hi): a negative bound counts from the end, and
\* both are clamped to the array.
SliceBound(s, k) ==
    IF k < 0 THEN AtLeastZero(Len(s) + k)
    ELSE IF k > Len(s) THEN Len(s) ELSE k
Slice(s, lo, hi) ==
    IF SliceBound(s, hi) <= SliceBound(s, lo) THEN <<>>
    ELSE SubSeq(s, SliceBound(s, lo) + 1, SliceBound(s, hi))

----------------------------------------------------------------------------
\* 4.4 Response projection: the streams of GET /stream.

\* The upstream sources of one answer: each with or without a url, and with a
\* quality label of the rank table, another label, or none ("").
MaxSources == 3
Qualities == {"1080p", "720p", "480p", "4K", ""}
Urls == {"http", ""}
SourceLists ==
    UNION {[1..n -> [url : Urls, quality : Qualities]] : n \in 0..MaxSources}

\* `${source.quality || 'Auto'} - Server ${index + 1}`; i is index + 1.
StreamTitle(source, i) ==
    <<IF source.quality = "" THEN "Auto" ELSE source.quality, " - ",
      "Server ">> \o NumberToString(i)

\* a.title.split(' - ')[0]
TitleQuality(title) == Field(Split(title, " - "), 1)

\* qualityOrder[q] || 0
QualityOrder(q) ==
    CASE q = <<"1080p">> -> 4
      [] q = <<"720p">> -> 3
      [] q = <<"480p">> -> 2
      [] q = <<"Auto">> -> 1
      [] OTHER -> 0

\* The comparator handed to streams.sort.
CompareStreams_Ascending(a, b) ==
    QualityOrder(TitleQuality(a.title)) - QualityOrder(TitleQuality(b.title))
CompareStreams(a, b) ==
    QualityOrder(TitleQuality(b.title)) - QualityOrder(TitleQuality(a.title))

\* Array.prototype.sort is a stable sort: each element goes behind the
\* elements it does not have to precede.
RECURSIVE InsertStream_BeforeEquals(_, _)
InsertStream_BeforeEquals(s, x) ==
    IF s = <<>> THEN <<x>>
    ELSE IF CompareStreams(Head(s), x) < 0
         THEN <<Head(s)>> \o InsertStream_BeforeEquals(Tail(s), x)
         ELSE <<x>> \o s
RECURSIVE InsertStream(_, _)
InsertStream(s, x) ==
    IF s = <<>> THEN <<x>>
    ELSE IF CompareStreams(Head(s), x) <= 0
         THEN <<Head(s)>> \o InsertStream(Tail(s), x)
         ELSE <<x>> \o s

RECURSIVE SortStreams(_)
SortStreams(s) ==
    IF s = <<>> THEN <<>>
    ELSE InsertStream(SortStreams(SubSeq(s, 1, Len(s) - 1)), s[Len(s)])

\* sources.filter(source => source && source.url), strict only.
WithUrl(sources) == SelectSeq(sources, LAMBDA x : x.url # "")

\* sources.map((source, index) => ({ url, title, ... }))
MapStreams(sources) ==
    [i \in 1..Len(sources) |->
        [url |-> sources[i].url, title |-> StreamTitle(sources[i], i)]]

\* The streams the handler answers with. part_000 and part_001 keep the
\* upstream order and title a stream by its quality alone.
ProjectStreams(sources) ==
    CASE variant \in {"basic", "retry"} -> SortStreams(MapStreams(sources))
      [] variant = "strict" -> SortStreams(MapStreams(WithUrl(sources)))
      [] variant = "p000" ->
            [i \in 1..Len(sources) |->
                [url |-> sources[i].url,
                 title |-> IF sources[i].quality = "" THEN <<"Source">>
                           ELSE <<sources[i].quality>>]]
      [] OTHER ->
            [i \in 1..Len(sources) |->
                [url |-> sources[i].url,
                 title |-> IF sources[i].quality = ""
                           THEN <<"Source ">> \o NumberToString(i)
                           ELSE <<sources[i].quality>>]]

----------------------------------------------------------------------------
\* 4.4 Response projection: mapGenreIds (basic, strict, retry).

\* genreMap, the static table.
GenreMap ==
    (28 :> "Action") @@ (35 :> "Comedy") @@ (18 :> "Drama")
    @@ (27 :> "Horror") @@ (878 :> "Science Fiction") @@ (53 :> "Thriller")
    @@ (12 :> "Adventure") @@ (16 :> "Animation") @@ (80 :> "Crime")
    @@ (99 :> "Documentary") @@ (10751 :> "Family") @@ (14 :> "Fantasy")
    @@ (36 :> "History") @@ (10402 :> "Music") @@ (9648 :> "Mystery")
    @@ (10749 :> "Romance") @@ (10770 :> "TV Movie") @@ (37 :> "Western")
    @@ (10752 :> "War") @@ (10759 :> "Action & Adventure")
    @@ (10762 :> "Kids") @@ (10763 :> "News") @@ (10764 :> "Reality")
    @@ (10765 :> "Sci-Fi & Fantasy") @@ (10766 :> "Soap")
    @@ (10767 :> "Talk") @@ (10768 :> "War & Politics")

\* genreMap[id]: the label, or undefined.
GenreLookup_Placeholder(id) ==
    IF id \in DOMAIN GenreMap THEN GenreMap[id] ELSE "Unknown"
GenreLookup(id) ==
    IF id \in DOMAIN GenreMap THEN GenreMap[id] ELSE "undefined"

\* genreIds.map(id => genreMap[id]).filter(Boolean)
MapGenreIds(genreIds) ==
    SelectSeq([i \in 1..Len(genreIds) |-> GenreLookup(genreIds[i])],
              LAMBDA x : x \notin {"undefined", ""})

\* The genre ids of an upstream item: ids of the table and others.
MaxGenres == 3
GenreIds == {28, 35, 10765, 99999, 0}
GenreIdLists == UNION {[1..n -> GenreIds] : n \in 0..MaxGenres}

\* transformToStremioMeta, or the meta handler, projects an item's genres.
GenresProject(genreIds) ==
    /\ call.op = "none"
    /\ variant \in {"basic", "strict", "retry"}
    /\ call' = [op |-> "genres", ids |-> genreIds,
                genres |-> MapGenreIds(genreIds)]
    /\ UNCHANGED <<variant, buildId, buildIdFetchedAt, buildIdCache,
                   buildIdCacheTime, now, ticks, upBuild, req>>

----------------------------------------------------------------------------
\* The route handlers at work on the parameters and the payload of one
\* request: what they compute from them, with the session left alone.

\* GET /stream, after getStreamSources gave the sources.
StreamProject(sources) ==
    /\ call.op = "none"
    /\ call' = [op |-> "streams", sources |-> sources,
                streams |-> ProjectStreams(sources)]
    /\ UNCHANGED <<variant, buildId, buildIdFetchedAt, buildIdCache,
                   buildIdCacheTime, now, ticks, upBuild, req>>

\* res.json: the handler is done.
Answer ==
    /\ call.op # "none"
    /\ call' = NoCall
    /\ UNCHANGED <<variant, buildId, buildIdFetchedAt, buildIdCache,
                   buildIdCacheTime, now, ticks, upBuild, req>>

----------------------------------------------------------------------------
\* GET /catalog: from the parameters to the client call and the metas.

\* The parameters of an inbound request: the :type, the catalog :id, the
\* search text and the skip as the handler reads them (from the path extra in
\* basic and strict, from the query string in retry, part_000 and part_001),
\* absent or as sent.
RouteTypes == {"movie", "series", "channel"}
CatalogIds ==
    {"cineby-trending-movies", "cineby-trending-series", "cineby-movies",
     "cineby-series", "cineby-anime", "cineby-other"}
Searches == {Undefined, <<"q">>}
SkipValues == {0, 5, 20, 45}
Skips == {Undefined} \cup {NumberToString(n) : n \in SkipValues}

\* Skip values a client can send besides: negative ones, and text that is no
\* number.
OddSkips == {<<"-", "1">>, <<"-", "4", "5">>, <<"a">>}

\* type === 'series' ? 'tv' : 'movie'
MediaType(type) == IF type = "series" THEN "tv" ELSE "movie"

\* ['movie', 'series'].includes(type), strict only.
ValidType_Any(type) == TRUE
ValidType(type) == type \in {"movie", "series"}

\* No page argument in the client call: a value apart from every page.
NoPageArg == 0 - 1000

\* The page handed to search, getMovies or getTVShows.
\* basic, retry: Math.floor((parseInt(skip) || 0) / 20) + 1;
\* strict: the same with skip = Math.max(0, parseInt(skip) || 0);
\* part_001: Math.floor(skip / 20) + 1 with skip the query text, 0 by
\* default; part_000: extra.skip || 1, the number the text stands for.
CatalogPage(skip) ==
    CASE variant = "p000" -> IF Truthy(skip) THEN ToNumber(skip) ELSE 1
      [] variant = "p001" ->
            IF skip = Undefined THEN 1
            ELSE IF ToNumber(skip) = NaN THEN NaN
            ELSE ToNumber(skip) \div 20 + 1
      [] variant = "strict" -> AtLeastZero(ParseIntOrZero(skip)) \div 20 + 1
      [] OTHER -> ParseIntOrZero(skip) \div 20 + 1

\* The trending payload of the upstream: items 1..MaxTrending, every fourth
\* a tv show.
MaxTrending == 36
Trending ==
    [i \in 1..MaxTrending |->
        [id |-> i, mediaType |-> IF i % 4 = 0 THEN "tv" ELSE "movie"]]

\* transformToStremioMeta(item).id, and the id part_000 and part_001 give a
\* meta: `cineby:${item.id}`, `${type}:${item.id}`; itemId is the text of
\* item.id.
CatalogMetaId(type, itemId) ==
    IF variant \in {"p000", "p001"} THEN <<type, ":">> \o itemId
    ELSE <<"cineby", ":">> \o itemId

\* The bounds of trending.slice(skip, skip + 20). In basic and strict skip is
\* a number (not below 0 in strict); in retry it is the query text, or the
\* number 0 when absent, and `skip + 20` of a text appends "20" to it.
SliceFrom(skip) ==
    CASE variant = "retry" /\ skip # Undefined -> NumberOrZero(ToNumber(skip))
      [] variant = "strict" -> AtLeastZero(ParseIntOrZero(skip))
      [] OTHER -> ParseIntOrZero(skip)
SliceTo(skip) ==
    CASE variant = "retry" /\ skip # Undefined ->
            NumberOrZero(ToNumber(skip \o <<"2", "0">>))
      [] variant = "strict" -> AtLeastZero(ParseIntOrZero(skip)) + 20
      [] OTHER -> ParseIntOrZero(skip) + 20

\* trending.filter(mediaType).slice(skip, skip + 20).map(transform)
TrendingMetas(type, skip) ==
    LET ofType == SelectSeq(Trending,
                            LAMBDA x : x.mediaType = MediaType(type))
        page == Slice(ofType, SliceFrom(skip), SliceTo(skip))
    IN  [i \in 1..Len(page) |->
            CatalogMetaId(type, NumberToString(page[i].id))]

\* The branch the handler takes: the client method it calls ("none": no
\* call), or the status it answers with at once.
CatalogBranch(type, id, search) ==
    CASE variant = "strict" /\ ~ValidType(type) -> [st |-> 400, m |-> "none"]
      [] Truthy(search) -> [st |-> 200, m |-> "search"]
      [] id \in {"cineby-trending-movies", "cineby-trending-series"}
         /\ variant \in {"basic", "strict", "retry"} ->
            [st |-> 200, m |-> "getTrending"]
      [] id = "cineby-movies" ->
            IF variant = "strict" /\ type # "movie"
            THEN [st |-> 200, m |-> "none"]
            ELSE [st |-> 200, m |-> "getMovies"]
      [] id = "cineby-series" ->
            IF variant = "strict" /\ type # "series"
            THEN [st |-> 200, m |-> "none"]
            ELSE [st |-> 200, m |-> "getTVShows"]
      [] id = "cineby-anime" /\ variant = "basic" ->
            [st |-> 500, m |-> "none"]
      [] variant = "strict" -> [st |-> 404, m |-> "none"]
      [] OTHER -> [st |-> 200, m |-> "none"]

\* The page argument of the call: part_000 gives search none.
PageArg(m, skip) ==
    IF m \in {"getMovies", "getTVShows"} \/ (m = "search" /\ variant # "p000")
    THEN CatalogPage(skip) ELSE NoPageArg

\* GET /catalog with the upstream answering the payload asked for.
CatalogRoute(type, id, search, skip) ==
    /\ call.op = "none"
    /\ LET b == CatalogBranch(type, id, search)
       IN  call' = [op |-> "catalog", type |-> type, id |-> id,
                    search |-> search, skip |-> skip,
                    status |-> b.st,
                    body |-> IF b.st = 200 THEN "metas" ELSE "error",
                    client |-> b.m,
                    page |-> PageArg(b.m, skip),
                    trending |-> IF b.m = "getTrending"
                                 THEN TrendingMetas(type, skip) ELSE <<>>]
    /\ UNCHANGED <<variant, buildId, buildIdFetchedAt, buildIdCache,
                   buildIdCacheTime, now, ticks, upBuild, req>>

----------------------------------------------------------------------------
\* GET /catalog of basic, strict and retry: from the list the client method
\* gave to the metas.

\* The items of an upstream list: with or without an id, a movie or a tv
\* show.
MaxItems == 2
Items == [id : {Undefined, <<"7">>}, mediaType : {"movie", "tv"}]
ItemLists == UNION {[1..n -> Items] : n \in 0..MaxItems}

\* No meta: transformToStremioMeta of strict returned null.
NoMeta == [id |-> <<>>, type |-> "none"]

\* transformToStremioMeta(item): strict gives null for an item without id.
TransformToStremioMeta(item) ==
    IF variant = "strict" /\ ~Truthy(item.id) THEN NoMeta
    ELSE [id |-> <<"cineby", ":">> \o item.id,
          type |-> IF item.mediaType = "movie" THEN "movie" ELSE "series"]

\* items.map(item => transformToStremioMeta(item)), with
\* .filter(Boolean) in strict (a no-op elsewhere: every meta is an object).
TransformAll(items) ==
    SelectSeq([i \in 1..Len(items) |-> TransformToStremioMeta(items[i])],
              LAMBDA m : m # NoMeta)

\* { ...item, mediaType: mt }
WithMediaType(items, mt) ==
    [i \in 1..Len(items) |-> [items[i] EXCEPT !.mediaType = mt]]

\* `results` of the branch the handler took, no skip given.
CatalogResults(type, m, items) ==
    CASE m \in {"search", "getTrending"} ->
            TransformAll(Slice(
                SelectSeq(items, LAMBDA x : x.mediaType = MediaType(type)),
                0, IF m = "getTrending" THEN 20 ELSE Len(items)))
      [] m = "getMovies" -> TransformAll(WithMediaType(items, "movie"))
      [] m = "getTVShows" -> TransformAll(WithMediaType(items, "tv"))
      [] OTHER -> <<>>

\* GET /catalog from the client's list to res.json({ metas: results }).
CatalogMetas(type, id, search, items) ==
    /\ call.op = "none"
    /\ variant \in {"basic", "strict", "retry"}
    /\ LET b == CatalogBranch(type, id, search)
       IN  call' = [op |-> "metas", type |-> type, id |-> id,
                    search |-> search, items |-> items,
                    status |-> b.st,
                    body |-> IF b.st = 200 THEN "metas" ELSE "error",
                    client |-> b.m,
                    metas |-> IF b.st = 200
                              THEN CatalogResults(type, b.m, items)
                              ELSE <<>>]
    /\ UNCHANGED <<variant, buildId, buildIdFetchedAt, buildIdCache,
                   buildIdCacheTime, now, ticks, upBuild, req>>

----------------------------------------------------------------------------
\* GET /meta and GET /stream: from the :id to the upstream request.

\* The ids of upstream items, as text: no ":" in them.
UpstreamIds == {<<"7">>, <<"4", "2">>, <<"cineby">>}
Namespaces == {"cineby", "movie", "series"}

\* The :id of a meta request: a namespaced id, or a bare one.
MetaRequestIds ==
    {<<ns, ":">> \o u : ns \in Namespaces, u \in UpstreamIds}
    \cup UpstreamIds

\* The handler has not answered yet: it is waiting for the client.
NotAnswered == 0

\* id.replace('cineby:', '') in basic, strict and retry;
\* id.split(":")[1] in part_000 and part_001.
DetailKey(id) ==
    IF variant \in {"p000", "p001"} THEN Field(Split(id, ":"), 2)
    ELSE Replace(id, <<"cineby", ":">>, <<>>)

\* GET /meta up to the client call: strict validates type and id first.
MetaRoute(type, id) ==
    /\ call.op = "none"
    /\ LET bad == variant = "strict"
                  /\ (~ValidType(type) \/ ~StartsWith(id, <<"cineby", ":">>))
       IN  call' = [op |-> "meta", type |-> type, id |-> id,
                    status |-> IF bad THEN 400 ELSE NotAnswered,
                    body |-> IF bad THEN "error" ELSE "none",
                    client |-> CASE bad -> "none"
                                 [] variant \in {"p000", "p001"} ->
                                        "getDetails"
                                 [] OTHER -> "getContentDetails",
                    key |-> IF bad THEN Undefined ELSE DetailKey(id),
                    media |-> CASE bad -> "none"
                                [] variant = "p000" -> type
                                [] OTHER -> MediaType(type)]
    /\ UNCHANGED <<variant, buildId, buildIdFetchedAt, buildIdCache,
                   buildIdCacheTime, now, ticks, upBuild, req>>

\* The seasons and episodes of a series' details.
Seasons == {0, 2, 12}
Episodes == {0, 5, 10, 123}
EpisodeNames == {<<"Homecoming">>, <<>>}

\* `${id}:${season.season_number}:${episode.episode_number}`
VideoId(id, s, e) ==
    id \o <<":">> \o NumberToString(s) \o <<":">> \o NumberToString(e)

\* `S${season_number.toString().padStart(2, '0')}E${episode_number
\* .toString().padStart(2, '0')} - ${episode.name}`
VideoTitle(s, e, name) ==
    <<"S">> \o PadStart(NumberToString(s), 2, "0")
    \o <<"E">> \o PadStart(NumberToString(e), 2, "0")
    \o <<" - ">> \o name

\* An episode_number that the payload does not have.
NoNumber == 0 - 1

\* Whether the meta handler has a videos loop, and whether the loop emits
\* the episode: strict skips an episode without number or name.
EmitsVideos == variant \in {"basic", "strict", "retry"}
EpisodeEmitted(e, name) ==
    variant = "strict" => (e # 0 /\ e # NoNumber /\ Truthy(name))

\* One pass of the videos loop of GET /meta/series/<id>.
MetaVideo(id, s, e, name) ==
    /\ call.op = "none"
    /\ EmitsVideos
    /\ call' = [op |-> "video", metaId |-> id, season |-> s, episode |-> e,
                name |-> name,
                videos |-> IF EpisodeEmitted(e, name)
                           THEN <<[id |-> VideoId(id, s, e),
                                   title |-> VideoTitle(s, e, name)]>>
                           ELSE <<>>]
    /\ UNCHANGED <<variant, buildId, buildIdFetchedAt, buildIdCache,
                   buildIdCacheTime, now, ticks, upBuild, req>>

\* The episodes of a series' details in the order the videos loop meets them
\* (season by season), each with its season's number; episode_number and name
\* may be missing from the payload.
MaxEpisodes == 2
PayloadEpisodes ==
    [season : {2, 12}, number : {NoNumber, 0, 5},
     name : {Undefined, <<>>, <<"Homecoming">>}]
EpisodeLists == UNION {[1..n -> PayloadEpisodes] : n \in 0..MaxEpisodes}
SeriesMetaIds == {<<"cineby", ":", "4", "2">>}

\* episode.episode_number.toString() of a missing number raises a TypeError;
\* strict tests the number before it gets there.
EpisodeThrows(ep) == variant # "strict" /\ ep.number = NoNumber

\* meta.videos after the loop ran to its end.
SeriesVideos(id, episodes) ==
    LET kept == SelectSeq(episodes,
                          LAMBDA ep : EpisodeEmitted(ep.number, ep.name))
    IN  [i \in 1..Len(kept) |->
            [id |-> VideoId(id, kept[i].season, kept[i].number),
             title |-> VideoTitle(kept[i].season, kept[i].number,
                                  kept[i].name),
             season |-> kept[i].season, episode |-> kept[i].number,
             name |-> kept[i].name]]

\* GET /meta/series/<id> from the details to the answer: the videos loop,
\* then res.json({ meta }); an exception in the loop goes to the catch block
\* (500 in basic, { meta: {} } in retry).
MetaSeries(id, episodes) ==
    /\ call.op = "none"
    /\ EmitsVideos
    /\ LET threw == \E i \in 1..Len(episodes) : EpisodeThrows(episodes[i])
       IN  call' = [op |-> "series", metaId |-> id, episodes |-> episodes,
                    status |-> IF threw /\ variant = "basic" THEN 500
                               ELSE 200,
                    body |-> CASE ~threw -> "meta"
                               [] variant = "basic" -> "error"
                               [] OTHER -> "emptymeta",
                    videos |-> IF threw THEN <<>>
                               ELSE SeriesVideos(id, episodes)]
    /\ UNCHANGED <<variant, buildId, buildIdFetchedAt, buildIdCache,
                   buildIdCacheTime, now, ticks, upBuild, req>>

\* The :id of a stream request: a video id, a meta id, or neither.
StreamRequestIds ==
    {VideoId(<<ns, ":">> \o u, s, e) :
        ns \in {"cineby", "series"}, u \in UpstreamIds, s \in Seasons,
        e \in Episodes}
    \cup {<<ns, ":">> \o u : ns \in {"cineby", "movie"}, u \in UpstreamIds}
    \cup UpstreamIds
    \cup {<<"cineby", ":", "7", ":", "2">>,
          <<"cineby", ":", "7", ":", ":", "5">>}

\* The stream-source endpoint asked for.
NoEndpoint == [kind |-> "none", id |-> Undefined, season |-> Undefined,
               episode |-> Undefined]

\* getStreamSources(id, mediaType, season, episode) of basic, strict, retry:
\* /api/v2/movie/<id>, /api/v2/tv/<id>[/<season>/<episode>].
StreamSourcesEndpoint_NoEpisode(id, mediaType, season, episode) ==
    [kind |-> mediaType, id |-> id, season |-> Undefined,
     episode |-> Undefined]
StreamSourcesEndpoint(id, mediaType, season, episode) ==
    IF mediaType = "movie" \/ ~(Truthy(season) /\ Truthy(episode))
    THEN [kind |-> mediaType, id |-> id, season |-> Undefined,
          episode |-> Undefined]
    ELSE [kind |-> mediaType, id |-> id, season |-> season,
          episode |-> episode]

\* getStreams(type, id) of part_000 (/api/<type>/<id>/streams) and part_001
\* (/api/v2/movie/<id>, /api/v2/tv/<id>).
StreamsEndpoint(type, id) ==
    [kind |-> IF variant = "p000" THEN type
              ELSE IF type = "movie" THEN "movie" ELSE "tv",
     id |-> id, season |-> Undefined, episode |-> Undefined]

\* GET /stream up to the client call: strict validates type and id first.
StreamRoute(type, id) ==
    /\ call.op = "none"
    /\ LET parts == Split(id, ":")
           bad == /\ variant = "strict"
                  /\ \/ ~ValidType(type)
                     \/ Len(parts) < 2
                     \/ /\ type = "series"
                        /\ ~(Truthy(Field(parts, 3))
                             /\ Truthy(Field(parts, 4)))
       IN  call' = [op |-> "stream", type |-> type, id |-> id,
                    status |-> IF bad THEN 400 ELSE NotAnswered,
                    body |-> IF bad THEN "error" ELSE "none",
                    client |-> CASE bad -> "none"
                                 [] variant \in {"p000", "p001"} ->
                                        "getStreams"
                                 [] OTHER -> "getStreamSources",
                    endpoint |->
                        CASE bad -> NoEndpoint
                          [] variant = "p000" ->
                                StreamsEndpoint(type, Field(parts, 2))
                          [] variant = "p001" ->
                                StreamsEndpoint(MediaType(type),
                                                Field(parts, 2))
                          [] OTHER ->
                                StreamSourcesEndpoint(
                                    Field(parts, 2), MediaType(type),
                                    Field(parts, 3), Field(parts, 4))]
    /\ UNCHANGED <<variant, buildId, buildIdFetchedAt, buildIdCache,
                   buildIdCacheTime, now, ticks, upBuild, req>>

\* A handler starts on a request when none is at work (the test comes first,
\* before the request is drawn), or the one at work answers.
RoutesNext ==
    \/ /\ call.op = "none"
       /\ \E sources \in SourceLists : StreamProject(sources)
    \/ /\ call.op = "none"
       /\ \E genreIds \in GenreIdLists : GenresProject(genreIds)
    \/ /\ call.op = "none"
       /\ \E type \in RouteTypes, id \in CatalogIds, search \in Searches,
             skip \in Skips \cup OddSkips :
             CatalogRoute(type, id, search, skip)
    \/ /\ call.op = "none"
       /\ \E type \in RouteTypes, id \in CatalogIds, search \in Searches,
             items \in ItemLists : CatalogMetas(type, id, search, items)
    \/ /\ call.op = "none"
       /\ \E type \in RouteTypes, id \in MetaRequestIds : MetaRoute(type, id)
    \/ /\ call.op = "none"
       /\ \E id \in MetaRequestIds, s \in Seasons, e \in Episodes,
             name \in EpisodeNames : MetaVideo(id, s, e, name)
    \/ /\ call.op = "none"
       /\ \E id \in SeriesMetaIds, episodes \in EpisodeLists :
             MetaSeries(id, episodes)
    \/ /\ call.op = "none"
       /\ \E type \in RouteTypes, id \in StreamRequestIds :
             StreamRoute(type, id)
    \/ Answer

SpecRoutes == Init /\ [][RoutesNext]_vars

----------------------------------------------------------------------------
\* Properties of the projections.

\* The sources a variant's /stream handler projects, and the upstream source
\* an answered stream was made from ("Server <k>" names the k-th of them).
ProjectedSources ==
    IF variant = "strict"
    THEN SelectSeq(call.sources, LAMBDA x : x.url # "")
    ELSE call.sources
SourceOf(stream) == DigitsValue(SubSeq(stream.title, 4, Len(stream.title)), 0)
RankOfSource(source) ==
    CASE source.quality = "1080p" -> 4
      [] source.quality = "720p" -> 3
      [] source.quality = "480p" -> 2
      [] source.quality = "" -> 1
      [] OTHER -> 0
SortedVariants == {"basic", "strict", "retry"}

\* C12: /stream of basic, strict and retry: the answered streams are the
\* projected sources, each once, in non-increasing order of quality rank
\* (1080p 4, 720p 3, 480p 2, missing quality 1), and two streams of equal
\* rank are in their upstream order.
StreamsSortedStable ==
    (call.op = "streams" /\ variant \in SortedVariants) =>
        LET out == call.streams
            src == ProjectedSources
        IN  /\ Len(out) = Len(src)
            /\ {SourceOf(out[i]) : i \in 1..Len(out)} = 1..Len(src)
            /\ \A i, j \in 1..Len(out) :
                  i < j =>
                     LET ri == RankOfSource(src[SourceOf(out[i])])
                         rj == RankOfSource(src[SourceOf(out[j])])
                     IN  /\ ri >= rj
                         /\ ri = rj => SourceOf(out[i]) < SourceOf(out[j])

StreamsSortedStableWitness ==
    /\ call.op = "streams" /\ variant \in SortedVariants
    /\ Len(call.sources) = 3
    /\ [i \in 1..3 |-> call.sources[i].quality] = <<"", "1080p", "720p">>
    /\ \A i \in 1..3 : call.sources[i].url # ""
    /\ [i \in 1..3 |-> call.streams[i].title[1]] = <<"1080p", "720p", "Auto">>

\* C13: the quality sort is idempotent: sorting the answered streams again
\* leaves their order as it is, also with labels outside the rank table.
StreamSortIdempotent ==
    (call.op = "streams" /\ variant \in SortedVariants) =>
        SortStreams(call.streams) = call.streams

StreamSortIdempotentWitness ==
    /\ call.op = "streams" /\ variant \in SortedVariants
    /\ Len(call.streams) = 3
    /\ call.streams # MapStreams(ProjectedSources)
    /\ call.streams[2].title[1] = "4K" /\ call.streams[3].title[1] = "4K"

\* C14: mapGenreIds: the result is the labels of the ids that the table
\* holds, in input order, duplicates kept; an id the table does not hold
\* gives no element and no placeholder.
KnownGenreLabel(id) ==
    CASE id = 28 -> "Action"
      [] id = 35 -> "Comedy"
      [] id = 10765 -> "Sci-Fi & Fantasy"
      [] OTHER -> "none"
GenresKeepKnownInOrder ==
    call.op = "genres" =>
        LET known == SelectSeq(call.ids,
                               LAMBDA id : KnownGenreLabel(id) # "none")
        IN  /\ Len(call.genres) = Len(known)
            /\ \A i \in 1..Len(known) :
                  call.genres[i] = KnownGenreLabel(known[i])

GenresKeepKnownInOrderWitness ==
    /\ call.op = "genres"
    /\ call.ids = <<28, 99999, 35>>
    /\ call.genres = <<"Action", "Comedy">>

\* C15 as claimed: in every variant a catalog request with skip = s for the
\* movie list, the tv list or a search queries the upstream with page
\* floor(s / 20) + 1, page 1 when skip is absent.
SkipNumber(skip) == IF skip = Undefined THEN 0 ELSE DigitsValue(skip, 0)
TrendingOfType(type) ==
    SelectSeq(Trending,
              LAMBDA x : x.mediaType = IF type = "series" THEN "tv"
                                       ELSE "movie")
TrendingAnswersTwentyFromSkip ==
    (call.op = "catalog" /\ call.skip \in Skips
     /\ call.client = "getTrending") =>
        LET s == SkipNumber(call.skip)
            items == TrendingOfType(call.type)
            last == IF s + 20 < Len(items) THEN s + 20 ELSE Len(items)
        IN  /\ Len(call.trending) <= 20
            /\ Len(call.trending) = IF last > s THEN last - s ELSE 0
            /\ \A k \in 1..Len(call.trending) :
                  call.trending[k] =
                     <<"cineby", ":">> \o NumberToString(items[s + k].id)

\* The decimal text of a number below 1000, padded with zeros to two digits:
\* digits only, of value n, two or more of them, none a leading zero beyond
\* the second place from the right.
DigitTexts == UNION {[1..k -> {DigitChars[i] : i \in 1..10}] : k \in 1..3}
TextValue(t) ==
    IF Len(t) = 1 THEN DigitValue(t[1])
    ELSE IF Len(t) = 2 THEN 10 * DigitValue(t[1]) + DigitValue(t[2])
    ELSE 100 * DigitValue(t[1]) + 10 * DigitValue(t[2]) + DigitValue(t[3])
Decimal(n) ==
    CHOOSE t \in DigitTexts :
        TextValue(t) = n /\ (Len(t) > 1 => t[1] # "0")
TwoDigits(n) ==
    CHOOSE t \in DigitTexts :
        TextValue(t) = n /\ Len(t) >= 2 /\ (Len(t) > 2 => t[1] # "0")

\* C16: the videos of the meta handlers (basic, strict, retry): the entry
\* emitted for season s, episode e with name n has the id
\* "<meta id>:<s>:<e>" and the title "S<s, two digits or more>E<e, two
\* digits or more> - <n>".
EpisodeIdAndTitle ==
    (call.op = "video" /\ call.videos # <<>>) =>
        /\ Len(call.videos) = 1
        /\ call.videos[1].id =
              call.metaId \o <<":">> \o Decimal(call.season)
              \o <<":">> \o Decimal(call.episode)
        /\ call.videos[1].title =
              <<"S">> \o TwoDigits(call.season) \o <<"E">>
              \o TwoDigits(call.episode) \o <<" - ">> \o call.name

EpisodeIdAndTitleWitness ==
    /\ call.op = "video" /\ call.season = 2 /\ call.episode = 5
    /\ call.metaId = <<"cineby", ":", "4", "2">>
    /\ call.videos =
          <<[id |-> <<"cineby", ":", "4", "2", ":", "2", ":", "5">>,
             title |-> <<"S", "0", "2", "E", "0", "5", " - ",
                         "Homecoming">>]>>

\* C17: within each variant, the meta id the catalog route gives the item
\* with upstream id u makes the meta route ask the client for the details
\* of exactly u.
MetaIdRoundTrip ==
    call.op = "meta" =>
        \A u \in UpstreamIds :
            (/\ call.id = CatalogMetaId(call.type, u)
             /\ variant = "strict" => call.type \in {"movie", "series"}) =>
                /\ call.client \in {"getContentDetails", "getDetails"}
                /\ call.key = u

MetaIdRoundTripWitness ==
    /\ call.op = "meta" /\ variant \in {"p000", "p001"}
    /\ call.id = CatalogMetaId(call.type, <<"4", "2">>)
    /\ call.key = <<"4", "2">>

\* C18: every video id "<ns>:<u>:<s>:<e>" that a variant's meta route emits,
\* when GET /stream/series/<id> receives it, gives a stream-source request
\* for the tv item u, season s, episode e. (The meta routes of part_000 and
\* part_001 emit no video id.)
SeriesStreamAddressing ==
    (call.op = "stream" /\ call.type = "series" /\ EmitsVideos) =>
        \A u \in UpstreamIds, s \in Seasons, e \in Episodes :
            call.id = VideoId(CatalogMetaId("series", u), s, e) =>
                /\ call.client = "getStreamSources"
                /\ call.endpoint.kind = "tv"
                /\ call.endpoint.id = u
                /\ call.endpoint.season = Decimal(s)
                /\ call.endpoint.episode = Decimal(e)

SeriesStreamAddressingWitness ==
    /\ call.op = "stream" /\ call.type = "series" /\ EmitsVideos
    /\ call.id = <<"cineby", ":", "4", "2", ":", "0", ":", "1", "0">>
    /\ call.endpoint = [kind |-> "tv", id |-> <<"4", "2">>,
                        season |-> <<"0">>, episode |-> <<"1", "0">>]

\* C19: strict variant: a request with a type other than movie and series,
\* a meta request whose id does not start with "cineby:", a stream request
\* whose id has fewer than two parts between colons or, for a series, no
\* season or no episode, is answered with a 4xx status and an error body,
\* with no client call (hence no upstream request) and the session state
\* left as it was.
ColonCount(id) == Cardinality({i \in 1..Len(id) : id[i] = ":"})
PartAfterColon(id, k) ==
    LET at == {i \in 1..Len(id) : id[i] = ":"}
        kth == {i \in at : Cardinality({j \in at : j <= i}) = k}
    IN  IF kth = {} THEN <<>>
        ELSE LET i == CHOOSE x \in kth : TRUE
                 later == {j \in at : j > i}
                 stop == IF later = {} THEN Len(id) + 1
                         ELSE CHOOSE j \in later : \A l \in later : j <= l
             IN  SubSeq(id, i + 1, stop - 1)
InvalidRequest(c) ==
    \/ c.type \notin {"movie", "series"}
    \/ c.op = "meta"
       /\ ~(Len(c.id) >= 2 /\ c.id[1] = "cineby" /\ c.id[2] = ":")
    \/ c.op = "stream"
       /\ \/ ColonCount(c.id) < 1
          \/ c.type = "series"
             /\ (PartAfterColon(c.id, 2) = <<>>
                 \/ PartAfterColon(c.id, 3) = <<>>)
StrictRejectsInvalid ==
    [][(/\ variant = "strict"
        /\ call'.op \in {"catalog", "meta", "stream"}
        /\ InvalidRequest(call')) =>
           /\ call'.status >= 400 /\ call'.status < 500
           /\ call'.body = "error"
           /\ call'.client = "none"
           /\ UNCHANGED <<buildId, buildIdFetchedAt, buildIdCache,
                          buildIdCacheTime, req>>]_vars

StrictRejectsInvalidWitness ==
    /\ variant = "strict" /\ call.op = "stream" /\ call.type = "series"
    /\ call.id = <<"cineby", ":", "7", ":", ":", "5">>
    /\ call.status = 400 /\ call.client = "none"

----------------------------------------------------------------------------
\* Properties of the meta handlers' videos.

\* The episodes of the payload that have both a number and a name.
CompleteEpisodes ==
    SelectSeq(call.episodes,
              LAMBDA ep : ep.number > 0 /\ ep.name \notin {Undefined, <<>>})

\* C21 as claimed: the meta handlers of basic, strict and retry: whatever
\* the details payload, the meta is answered (200, with its fields), no
\* emitted entry has a missing number or name, and every episode with a
\* number and a name has its entry, in payload order.
EpisodesFilteredMetaKept ==
    call.op = "series" =>
        /\ call.status = 200 /\ call.body = "meta"
        /\ \A i \in 1..Len(call.videos) :
              /\ call.videos[i].episode # NoNumber
              /\ call.videos[i].name # Undefined
        /\ LET entries == SelectSeq(call.videos,
                              LAMBDA v : v.episode > 0
                                         /\ v.name \notin {Undefined, <<>>})
           IN  [i \in 1..Len(entries) |->
                   [season |-> entries[i].season,
                    number |-> entries[i].episode,
                    name |-> entries[i].name]] = CompleteEpisodes

----------------------------------------------------------------------------
\* Properties of the session: stream requests, overlapping refreshes, the
\* identifier in the path.

FetchingHomepage(r) ==
    r.pc \in {"warm_sent", "warm_served", "forced_sent", "forced_served"}

\* C22 as claimed: in every variant a GET /stream request sends no homepage
\* request, and no step of it changes the cached identifier or its
\* timestamp, whatever the state of the cache.
StreamLeavesSessionAlone ==
    [][\A p \in Procs :
          (req'[p] # req[p] /\ "stream" \in {req[p].kind, req'[p].kind}) =>
             /\ ~FetchingHomepage(req'[p])
             /\ UNCHANGED <<buildId, buildIdFetchedAt, buildIdCache,
                            buildIdCacheTime>>]_vars

\* C25 as claimed: retry, part_000 and part_001, overlapping getBuildId
\* calls: fetchedAt never decreases, and a homepage answer that reaches a
\* call entered before the last write of the cache does not replace the
\* identifier written by the call entered later.
RefreshesNeverGoBack ==
    [][(variant \in TtlVariants) =>
          /\ buildIdFetchedAt' >= buildIdFetchedAt
          /\ \A p \in Procs :
                (/\ req[p].pc \in {"warm_served", "forced_served"}
                 /\ req'[p] # req[p]
                 /\ req[p].t0 < buildIdFetchedAt) => buildId' = buildId]_vars

\* C26 as claimed: retry, part_000 and part_001: no catalog, search or
\* details request is sent with a missing identifier in its path, also when
\* the homepage request of a cold start fails.
NoRequestWithoutIdentifier ==
    \A p \in Procs :
        (/\ variant \in TtlVariants /\ IsDataRequest(req[p])
         /\ req[p].runs > 0) => req[p].used # NoId

\* C27 as claimed: retry variant: getTrending, search, getMovies and
\* getTVShows resolve to a list, never to null, also when _withBuildIdRetry
\* resolves to null after a failed operation.
RetryListsNeverNull ==
    \A p \in Procs :
        (/\ variant = "retry" /\ req[p].kind = "list"
         /\ Finished(req[p])) => req[p].out \notin {"null", "raised"}

----------------------------------------------------------------------------
\* Further properties of the projections.

\* C23 as claimed: /stream of basic, strict and retry: every answered stream
\* has a url; the sources without one are not among the streams.
StreamsAllHaveUrl ==
    (call.op = "streams" /\ variant \in SortedVariants) =>
        /\ \A i \in 1..Len(call.streams) : call.streams[i].url # ""
        /\ Len(call.streams) =
              Cardinality({i \in 1..Len(call.sources) :
                              call.sources[i].url # ""})

\* C24 as claimed: catalogs of basic, strict and retry: an upstream item
\* without an id gives no meta; no answered meta has an id built from a
\* missing upstream id ("cineby:undefined").
NoMetaFromMissingId ==
    call.op = "metas" =>
        \A i \in 1..Len(call.metas) :
            call.metas[i].id # <<"cineby", ":", "undefined">>

\* C28 as claimed: catalogs of basic, strict and retry: for a request of
\* type movie or series, whatever the catalog id, every answered meta has
\* the requested type.
MetasHaveRequestedType ==
    (call.op = "metas" /\ call.type \in {"movie", "series"}) =>
        \A i \in 1..Len(call.metas) : call.metas[i].type = call.type

\* C29 as claimed: basic, strict, retry and part_001: the page a catalog
\* request sends upstream is an integer, 1 or more, for every skip value,
\* negative and non-numeric ones included.
PageIsPositiveInteger ==
    (/\ call.op = "catalog" /\ variant \in {"basic", "strict", "retry", "p001"}
     /\ call.client \in {"search", "getMovies", "getTVShows"}) =>
        call.page # NaN /\ call.page >= 1

\* C30 as claimed: strict variant, GET /catalog with a valid type: a catalog
\* id that is none of the manifest's four is answered 404 with an error body
\* and no client call, with or without a search parameter.
ManifestCatalogs ==
    {"cineby-trending-movies", "cineby-trending-series", "cineby-movies",
     "cineby-series"}
UnknownCatalogIs404 ==
    (/\ variant = "strict" /\ call.op \in {"catalog", "metas"}
     /\ call.type \in {"movie", "series"}
     /\ call.id \notin ManifestCatalogs) =>
        /\ call.status = 404 /\ call.body = "error"
        /\ call.client = "none"

====
